---- MODULE Spec2Model ----
(***************************************************************************)
(* Model of dopingflow/scan.py: the symmetry-unique enumeration of dopant  *)
(* decorations on a sublattice, the two size guards, the parallel scoring  *)
(* of the unique decorations and the streaming top-k selection.            *)
(*                                                                         *)
(* A crystal is modelled on a one-dimensional periodic lattice: the        *)
(* fractional coordinate of a site is x/G with x in 0..G-1, a symmetry     *)
(* operation is c |-> R*c + t with R in {1,-1}.  Sequences are 1-based     *)
(* here where the code's arrays are 0-based.  Energies are integers.       *)
(***************************************************************************)
EXTENDS Integers, Sequences, FiniteSets, TLC

(***************************************************************************)
(* Bounds of the explored inputs.                                          *)
(***************************************************************************)
MaxTopk == 2
MaxEnumCeil == 6
MaxUniqueCeil == 5
MaxScore == 2
\* the ceilings of the configuration used on the five-site ring
EnumRawCeil == 120
EnumUniqueCeil == 7
\* the largest number of structure folders in one run
MaxFolders == 2
MaxRuns == 2

(***************************************************************************)
(* Inputs: elements, structures, configuration.                            *)
(***************************************************************************)
HostEl == "Ti"
AnionEls == {"O"}
SubEls == {"Nb", "Ti", "Zr"}
PoscarOrder == <<"Ti", "O">>

\* Python's ordering of the element names (str.__lt__), as a rank
ElRank(el) ==
    CASE el = "Hf" -> 1
      [] el = "Nb" -> 2
      [] el = "O"  -> 3
      [] el = "Ta" -> 4
      [] el = "Ti" -> 5
      [] el = "Zr" -> 6

\* "S" a site of the enumerated sublattice, "O" an anion site, "-" no site;
\* els are the elements a sublattice site of the frame may carry
Frames ==
    { [G |-> 4, cells |-> <<"S", "S", "S", "S">>, els |-> {"Nb", "Ti"},
       ordered |-> FALSE],
      [G |-> 6, cells |-> <<"O", "-", "S", "S", "S", "S">>, els |-> {"Nb", "Ti"},
       ordered |-> TRUE],
      [G |-> 4, cells |-> <<"S", "S", "S", "O">>, els |-> SubEls,
       ordered |-> FALSE],
      [G |-> 5, cells |-> <<"O", "-", "S", "S", "S">>, els |-> SubEls,
       ordered |-> TRUE],
      [G |-> 4, cells |-> <<"S", "O", "S", "O">>, els |-> SubEls,
       ordered |-> FALSE] }

RECURSIVE SitesOf(_, _, _)
SitesOf(cells, dec, k) ==
    IF cells = << >> THEN << >>
    ELSE LET c == Head(cells)
             x == k
         IN  IF c = "-" THEN SitesOf(Tail(cells), dec, k + 1)
             ELSE IF c = "O"
                  THEN <<[el |-> "O", x |-> x]>> \o SitesOf(Tail(cells), dec, k + 1)
                  ELSE <<[el |-> Head(dec), x |-> x]>>
                         \o SitesOf(Tail(cells), Tail(dec), k + 1)

NumS(cells) == Cardinality({i \in 1..Len(cells) : cells[i] = "S"})

\* a decoration listing its elements in alphabetical order
Ordered(dec) == \A i \in 1..(Len(dec) - 1) : ElRank(dec[i]) <= ElRank(dec[i + 1])

\* the POSCARs a structure folder may hold: the decorations of every frame
\* (on the frames without symmetry, where the sites are interchangeable for
\* the scan, one decoration per composition)
Structures ==
    UNION { { [G |-> f.G, sites |-> SitesOf(f.cells, dec, 0), loose |-> 0] :
                dec \in { d \in [1..NumS(f.cells) -> f.els] :
                             f.ordered => Ordered(d) } } : f \in Frames }

\* a five-site ring shared by the host and 0..4 dopant species
EnumStructures ==
    { [G |-> 5, sites |-> SitesOf(<<"S", "S", "S", "S", "S">>, dec, 0), loose |-> 0] :
        dec \in { <<"Ti", "Ti", "Ti", "Ti", "Ti">>,
                  <<"Nb", "Ti", "Ti", "Ti", "Ti">>,
                  <<"Zr", "Ti", "Nb", "Ti", "Ti">>,
                  <<"Zr", "Nb", "Nb", "Ti", "Ti">>,
                  <<"Zr", "Hf", "Ti", "Nb", "Ti">>,
                  <<"Ta", "Zr", "Hf", "Ti", "Nb">> } }

\* two sublattice sites in a cell of 12 steps, the second one on or next to
\* the middle of the cell; the cell is so short that symprec spans 1 or 2
\* steps of it
MatchStructures ==
    { [G |-> 12,
       sites |-> <<[el |-> dec[1], x |-> 0], [el |-> dec[2], x |-> x2]>>,
       loose |-> l] :
        dec \in { <<"Ti", "Ti">>, <<"Nb", "Ti">>, <<"Ti", "Nb">> },
        x2 \in {5, 6, 7}, l \in {1, 2} }

\* ScanConfig as accepted by _parse_scan_config (all numeric knobs > 0);
\* symprec is counted in tenths of a lattice step, so symprec*10 is a
\* whole number of steps
Configs ==
  { c \in
    [ topk : 1..MaxTopk,
      max_enum : 1..MaxEnumCeil,
      max_unique : 1..MaxUniqueCeil,
      symprec : {1},
      nproc : {1, 2},
      chunksize : {1},
      order : {PoscarOrder},
      host_species : {HostEl},
      anion_species : {AnionEls},
      skip_if_done : {TRUE} ] :
    c.max_enum = MaxEnumCeil \/ c.max_unique = MaxUniqueCeil }

Scores == 0..MaxScore

\* the values a numeric knob of the configuration file may hold around 0
RawKnob(v) == {-1, 0, v}

\* the [scan], [generate] and [doping] tables as read at lines 53-70, before
\* any validation
RawConfigs ==
    [ topk : RawKnob(1),
      max_enum : RawKnob(MaxEnumCeil),
      max_unique : RawKnob(MaxUniqueCeil),
      symprec : RawKnob(1),
      nproc : RawKnob(1),
      chunksize : RawKnob(1),
      order : {<< >>, PoscarOrder},
      host_species : {"", HostEl},
      anion_species : {{}, AnionEls},
      skip_if_done : {TRUE} ]

\* valid configurations for runs over several folders
ValidRunConfigs ==
    [ topk : {1},
      max_enum : {MaxEnumCeil},
      max_unique : {MaxUniqueCeil},
      symprec : {1},
      nproc : {1},
      chunksize : {1},
      order : {PoscarOrder},
      host_species : {HostEl},
      anion_species : {AnionEls},
      skip_if_done : BOOLEAN ]

\* lines 71-88: the checks of _parse_scan_config, in their order
ParseRaisesNoChunksize(raw) ==
    \/ raw.topk <= 0
    \/ raw.symprec <= 0
    \/ raw.max_enum <= 0
    \/ raw.nproc <= 0
    \/ raw.order = << >>
    \/ raw.host_species = ""
    \/ raw.anion_species = {}
    \/ raw.max_unique <= 0

ParseRaises(raw) ==
    \/ raw.topk <= 0
    \/ raw.symprec <= 0
    \/ raw.max_enum <= 0
    \/ raw.nproc <= 0
    \/ raw.chunksize <= 0
    \/ raw.order = << >>
    \/ raw.host_species = ""
    \/ raw.anion_species = {}
    \/ raw.max_unique <= 0

\* no POSCAR has been read yet
NoStructure == [G |-> 1, sites |-> << >>, loose |-> 0]

\* the POSCARs of the folders of a run: pristine, doped, and without host
RunStructures ==
    { [G |-> 4, sites |-> SitesOf(<<"S", "S", "S", "O">>, dec, 0), loose |-> 0] :
        dec \in { <<"Ti", "Ti", "Ti">>, <<"Nb", "Ti", "Ti">>, <<"Nb", "Nb", "Zr">> } }

\* what a subfolder of outdir holds: whether the POSCAR is there, the POSCAR,
\* and whether ranking_scan.csv is already there
FolderKinds ==
    {[exists |-> FALSE, poscar |-> NoStructure, csv |-> FALSE]}
        \cup [exists : {TRUE}, poscar : RunStructures, csv : BOOLEAN]

\* a subfolder: its name, its content, and the files this session has
\* written into it, in the order of the writes
Dir(name, kind) ==
    [name |-> name, exists |-> kind.exists, poscar |-> kind.poscar,
     csv |-> kind.csv, written |-> << >>]

\* outdir.iterdir(): the subfolders in whatever order the file system lists
\* them
Listings ==
    UNION { { [i \in 1..n |-> Dir(names[i], kinds[i])] :
                names \in { f \in [1..n -> 1..n] :
                               \A i \in 1..n : \A j \in 1..n : i # j => f[i] # f[j] },
                kinds \in [1..n -> FolderKinds] } : n \in 0..MaxFolders }

\* sorted(...) on the paths
RECURSIVE SortDirs(_)
SortDirs(listing) ==
    IF listing = << >> THEN << >>
    ELSE LET least == CHOOSE i \in 1..Len(listing) :
                          \A j \in 1..Len(listing) : listing[i].name <= listing[j].name
         IN  <<listing[least]>>
               \o SortDirs(SubSeq(listing, 1, least - 1)
                             \o SubSeq(listing, least + 1, Len(listing)))

\* sorted([p for p in outdir.iterdir() if p.is_dir()])
FolderLists == { SortDirs(listing) : listing \in Listings }

(***************************************************************************)
(* Pure helpers of scan.py                                                 *)
(***************************************************************************)
Range(s) == {s[i] : i \in 1..Len(s)}

RECURSIVE SeqSum(_)
SeqSum(s) == IF s = << >> THEN 0 ELSE Head(s) + SeqSum(Tail(s))

RECURSIVE Concat(_)
Concat(ss) == IF ss = << >> THEN << >> ELSE Head(ss) \o Concat(Tail(ss))

\* Counter / dict with insertion order: a sequence of <<key, value>>
Keys(d) == {d[i][1] : i \in 1..Len(d)}
Lookup(d, k) == (CHOOSE i \in 1..Len(d) : d[i][1] = k)
CounterAdd(d, k) ==
    IF k \in Keys(d)
    THEN [i \in 1..Len(d) |-> IF d[i][1] = k THEN <<k, d[i][2] + 1>> ELSE d[i]]
    ELSE Append(d, <<k, 1>>)

\* _infer_enumeration_sublattice: the loop over the sites
RECURSIVE InferLoop(_, _, _, _, _)
InferLoop(sites, i, anions, sub, counts) ==
    IF i > Len(sites) THEN [sub_idx |-> sub, counts |-> counts]
    ELSE IF sites[i].el \in anions
         THEN InferLoop(sites, i + 1, anions, sub, counts)
         ELSE InferLoop(sites, i + 1, anions, Append(sub, i),
                        CounterAdd(counts, sites[i].el))

\* the resolver without the filter "el != host_species" on the counts
InferSublatticeKeepHost(struct, host, anions) ==
    LET r == InferLoop(struct.sites, 1, anions, << >>, << >>)
    IN  IF host \notin Keys(r.counts)
        THEN [ok |-> FALSE, sub_idx |-> << >>, dopant_counts |-> << >>,
              host_count |-> 0]
        ELSE [ok |-> TRUE,
              sub_idx |-> r.sub_idx,
              dopant_counts |-> r.counts,
              host_count |-> r.counts[Lookup(r.counts, host)][2]]

InferSublattice(struct, host, anions) ==
    LET r == InferLoop(struct.sites, 1, anions, << >>, << >>)
    IN  IF host \notin Keys(r.counts)
        THEN [ok |-> FALSE, sub_idx |-> << >>, dopant_counts |-> << >>,
              host_count |-> 0]
        ELSE [ok |-> TRUE,
              sub_idx |-> r.sub_idx,
              dopant_counts |-> SelectSeq(r.counts, LAMBDA e : e[1] # host),
              host_count |-> r.counts[Lookup(r.counts, host)][2]]

\* math.comb
RECURSIVE Comb(_, _)
Comb(n, k) ==
    IF k < 0 \/ k > n THEN 0
    ELSE IF k = 0 THEN 1
    ELSE (Comb(n - 1, k - 1) * n) \div k

\* the loop without "remaining -= cnt"
RECURSIVE EstimateLoopNoDecrement(_, _, _)
EstimateLoopNoDecrement(remaining, total, dc) ==
    IF dc = << >> THEN total
    ELSE EstimateLoopNoDecrement(remaining,
                                 total * Comb(remaining, Head(dc)[2]), Tail(dc))

\* _estimate_num_configs
RECURSIVE EstimateLoop(_, _, _)
EstimateLoop(remaining, total, dc) ==
    IF dc = << >> THEN total
    ELSE EstimateLoop(remaining - Head(dc)[2],
                      total * Comb(remaining, Head(dc)[2]), Tail(dc))

EstimateNumConfigs(n_sites, dopant_counts) == EstimateLoop(n_sites, 1, dopant_counts)

\* _make_parent_structure
MakeParentStructure(struct, sublattice_indices, host) ==
    [struct EXCEPT
       !.sites = [i \in 1..Len(struct.sites) |->
                    IF i \in Range(sublattice_indices)
                    THEN [el |-> host, x |-> struct.sites[i].x]
                    ELSE struct.sites[i]]]

(***************************************************************************)
(* Symmetry Action Builder                                                 *)
(***************************************************************************)
\* the operations c |-> R*c + t on a lattice of G steps
AllOps(G) ==
    [k \in 1..(2 * G) |->
        IF k <= G THEN [R |-> 1, t |-> k - 1] ELSE [R |-> -1, t |-> k - G - 1]]

\* d -= np.round(d), in lattice steps (np.round rounds the half to even: 0)
PeriodicDiff(d, G) ==
    IF 2 * d > G THEN d - G ELSE IF 2 * d < -G THEN d + G ELSE d

\* the analyzer's tolerance in lattice steps: symprec is a Cartesian
\* length, and struct.loose says how many steps of the cell it spans per
\* unit of symprec (0 for a cell much longer than symprec)
AnalyzerTol(struct, symprec) == symprec * struct.loose

\* op maps every site onto a site of the same element, within the tolerance
IsSymmetryOf(op, struct, symprec) ==
    \A i \in 1..Len(struct.sites) :
        \E j \in 1..Len(struct.sites) :
            /\ struct.sites[j].el = struct.sites[i].el
            /\ LET d == PeriodicDiff(
                            struct.sites[j].x
                              - ((op.R * struct.sites[i].x + op.t) % struct.G),
                            struct.G)
               IN  d * d <= AnalyzerTol(struct, symprec) * AnalyzerTol(struct, symprec)

\* SpacegroupAnalyzer(parent, symprec).get_symmetry_operations(cartesian=False)
SymmetryOperations(struct, symprec) ==
    SelectSeq(AllOps(struct.G), LAMBDA op : IsSymmetryOf(op, struct, symprec))

\* dist2 of match_index, per sublattice site
Dist2(frac, coord, G) ==
    [j \in 1..Len(frac) |->
        LET d == PeriodicDiff(frac[j] - (coord % G), G) IN d * d]

\* int(np.argmin(dist2)): the first index of the minimum
ArgMin(v) ==
    CHOOSE j \in 1..Len(v) :
        /\ \A k \in 1..Len(v) : v[j] <= v[k]
        /\ \A k \in 1..(j - 1) : v[k] > v[j]

\* match_index rejecting a distance equal to the tolerance
MatchIndexStrict(frac, coord, G, symprec) ==
    LET dist2 == Dist2(frac, coord, G)
        j == ArgMin(dist2)
    IN  IF dist2[j] >= symprec * symprec THEN 0 ELSE j

\* match_index: 0 stands for the RuntimeError
MatchIndex(frac, coord, G, symprec) ==
    LET dist2 == Dist2(frac, coord, G)
        j == ArgMin(dist2)
    IN  IF dist2[j] > symprec * symprec THEN 0 ELSE j

\* the dedup loop "unique perms"
RECURSIVE UniquePerms(_, _)
UniquePerms(perms, uniq) ==
    IF perms = << >> THEN uniq
    ELSE IF Head(perms) \in Range(uniq)
         THEN UniquePerms(Tail(perms), uniq)
         ELSE UniquePerms(Tail(perms), Append(uniq, Head(perms)))

\* the builder matching the image of the first site for every i
BuildSymmetryPermutationsStaleIndex(parent, sublattice_indices, symprec) ==
    LET ops == SymmetryOperations(parent, symprec)
        frac == [k \in 1..Len(sublattice_indices) |->
                    parent.sites[sublattice_indices[k]].x]
        N == Len(frac)
        perms == [o \in 1..Len(ops) |->
                    [i \in 1..N |->
                        MatchIndex(frac, ops[o].R * frac[1] + ops[o].t,
                                   parent.G, symprec)]]
    IN  IF \E o \in 1..Len(ops) : \E i \in 1..N : perms[o][i] = 0
        THEN [ok |-> FALSE, perms |-> << >>]
        ELSE [ok |-> TRUE, perms |-> UniquePerms(perms, << >>)]

\* the builder looping over ops[1:] only
BuildSymmetryPermutationsSkipFirst(parent, sublattice_indices, symprec) ==
    LET ops == Tail(SymmetryOperations(parent, symprec))
        frac == [k \in 1..Len(sublattice_indices) |->
                    parent.sites[sublattice_indices[k]].x]
        N == Len(frac)
        perms == [o \in 1..Len(ops) |->
                    [i \in 1..N |->
                        MatchIndex(frac, ops[o].R * frac[i] + ops[o].t,
                                   parent.G, symprec)]]
    IN  IF \E o \in 1..Len(ops) : \E i \in 1..N : perms[o][i] = 0
        THEN [ok |-> FALSE, perms |-> << >>]
        ELSE [ok |-> TRUE, perms |-> UniquePerms(perms, << >>)]

\* _build_symmetry_permutations
BuildSymmetryPermutations(parent, sublattice_indices, symprec) ==
    LET ops == SymmetryOperations(parent, symprec)
        frac == [k \in 1..Len(sublattice_indices) |->
                    parent.sites[sublattice_indices[k]].x]
        N == Len(frac)
        perms == [o \in 1..Len(ops) |->
                    [i \in 1..N |->
                        MatchIndex(frac, ops[o].R * frac[i] + ops[o].t,
                                   parent.G, symprec)]]
    IN  IF \E o \in 1..Len(ops) : \E i \in 1..N : perms[o][i] = 0
        THEN [ok |-> FALSE, perms |-> << >>]
        ELSE [ok |-> TRUE, perms |-> UniquePerms(perms, << >>)]

(***************************************************************************)
(* Canonicalizer                                                           *)
(***************************************************************************)
\* the bytes of a boolean mask instead of the int8 labels
ToBytesMask(labels) == [i \in 1..Len(labels) |-> IF labels[i] # 0 THEN 1 ELSE 0]

\* ndarray.tobytes() of an int8 array: one byte per label
ToBytes(labels) == [i \in 1..Len(labels) |-> labels[i] % 256]

\* bytes.__lt__
RECURSIVE BytesLess(_, _)
BytesLess(a, b) ==
    IF a = << >> THEN b # << >>
    ELSE IF b = << >> THEN FALSE
    ELSE IF Head(a) # Head(b) THEN Head(a) < Head(b)
    ELSE BytesLess(Tail(a), Tail(b))

\* labels[perm]
Reindex(labels, perm) == [i \in 1..Len(perm) |-> labels[perm[i]]]

RECURSIVE CanonLoop(_, _, _)
CanonLoop(labels, perms, best) ==
    IF perms = << >> THEN best
    ELSE LET b == ToBytes(Reindex(labels, Head(perms)))
         IN  IF best = << >> \/ BytesLess(b, best)
             THEN CanonLoop(labels, Tail(perms), b)
             ELSE CanonLoop(labels, Tail(perms), best)

\* the key as the image under the first permutation only
CanonicalKeyFirstImage(labels, perms) == ToBytes(Reindex(labels, Head(perms)))

\* _canonical_key (<< >> stands for best = None; a key has N >= 1 bytes)
CanonicalKey(labels, perms) == CanonLoop(labels, perms, << >>)

(***************************************************************************)
(* Combinatorial Enumerator                                                *)
(***************************************************************************)
\* itertools.combinations_with_replacement(pool, r)
RECURSIVE CombinationsWithReplacement(_, _)
CombinationsWithReplacement(pool, r) ==
    IF r = 0 THEN << << >> >>
    ELSE IF pool = << >> THEN << >>
    ELSE LET with == CombinationsWithReplacement(pool, r - 1)
         IN  [k \in 1..Len(with) |-> <<Head(pool)>> \o with[k]]
               \o CombinationsWithReplacement(Tail(pool), r)

\* itertools.combinations(pool, r), in its lexicographic order
RECURSIVE Combinations(_, _)
Combinations(pool, r) ==
    IF r = 0 THEN << << >> >>
    ELSE IF Len(pool) < r THEN << >>
    ELSE LET with == Combinations(Tail(pool), r - 1)
         IN  [k \in 1..Len(with) |-> <<Head(pool)>> \o with[k]]
               \o Combinations(Tail(pool), r)

\* the pool handed on without removing the chosen positions
RemainingUnfiltered(pool, A) == pool

\* [p for p in pool if p not in A]
Remaining(pool, A) == SelectSeq(pool, LAMBDA p : p \notin Range(A))

\* labels[list(A)] = l
SetLabels(labels, A, l) ==
    [i \in 1..Len(labels) |-> IF i \in Range(A) THEN l ELSE labels[i]]

Zeros(N) == [i \in 1..N |-> 0]

\* _enumerate_label_configs: the sequence of the vectors the generator
\* yields; items are <<label, count>>.  With more than 3 items the
\* generator yields nothing and raises ValueError (EnumeratorRaises).
EnumerateLabelConfigs(N, items) ==
    LET allpos == [i \in 1..N |-> i]
    IN  CASE Len(items) = 0 -> << Zeros(N) >>
          [] Len(items) = 1 ->
               LET As == Combinations(allpos, items[1][2])
               IN  [a \in 1..Len(As) |-> SetLabels(Zeros(N), As[a], items[1][1])]
          [] Len(items) = 2 ->
               LET As == Combinations(allpos, items[1][2])
               IN  Concat([a \in 1..Len(As) |->
                     LET rem1 == Remaining(allpos, As[a])
                         Bs == Combinations(rem1, items[2][2])
                     IN  [b \in 1..Len(Bs) |->
                            SetLabels(SetLabels(Zeros(N), As[a], items[1][1]),
                                      Bs[b], items[2][1])]])
          [] Len(items) = 3 ->
               LET As == Combinations(allpos, items[1][2])
               IN  Concat([a \in 1..Len(As) |->
                     LET rem1 == Remaining(allpos, As[a])
                         Bs == Combinations(rem1, items[2][2])
                     IN  Concat([b \in 1..Len(Bs) |->
                           LET rem2 == Remaining(rem1, Bs[b])
                               Cs == Combinations(rem2, items[3][2])
                           IN  [c \in 1..Len(Cs) |->
                                  SetLabels(SetLabels(SetLabels(Zeros(N),
                                      As[a], items[1][1]),
                                      Bs[b], items[2][1]),
                                      Cs[c], items[3][1])]])])
          [] OTHER -> << >>

EnumeratorRaises(items) == Len(items) > 3

\* sorted(dopant_counts.items()): insertion sort on the element name
RECURSIVE SortedItems(_)
InsertItem(sorted, e) ==
    LET k == Cardinality({i \in 1..Len(sorted) : ElRank(sorted[i][1]) <= ElRank(e[1])})
    IN  SubSeq(sorted, 1, k) \o <<e>> \o SubSeq(sorted, k + 1, Len(sorted))
SortedItems(d) ==
    IF d = << >> THEN << >> ELSE InsertItem(SortedItems(SubSeq(d, 1, Len(d) - 1)), d[Len(d)])

\* the loop "Label mapping (stable)"
LabelToEl(host, dopants_sorted) ==
    [lab \in 0..Len(dopants_sorted) |->
        IF lab = 0 THEN host ELSE dopants_sorted[lab][1]]
DopantLabelCounts(dopants_sorted) ==
    [lab \in 1..Len(dopants_sorted) |-> <<lab, dopants_sorted[lab][2]>>]

(***************************************************************************)
(* heapq on the list best of (-E, done, labels) tuples                     *)
(***************************************************************************)
\* the comparison with the arrival index negated in the item
ItemLessLateFirst(a, b) == a[1] < b[1] \/ (a[1] = b[1] /\ a[2] > b[2])

\* tuple.__lt__ on (-E, done, labels): done is unique per item, so the
\* comparison is decided by the first two components
ItemLess(a, b) == a[1] < b[1] \/ (a[1] = b[1] /\ a[2] < b[2])

\* heapq._siftdown, positions 0-based
RECURSIVE SiftDownLoop(_, _, _, _)
SiftDownLoop(heap, startpos, pos, newitem) ==
    IF pos > startpos
    THEN LET parentpos == (pos - 1) \div 2
             parent == heap[parentpos + 1]
         IN  IF ItemLess(newitem, parent)
             THEN SiftDownLoop([heap EXCEPT ![pos + 1] = parent],
                               startpos, parentpos, newitem)
             ELSE [heap EXCEPT ![pos + 1] = newitem]
    ELSE [heap EXCEPT ![pos + 1] = newitem]

SiftDown(heap, startpos, pos) == SiftDownLoop(heap, startpos, pos, heap[pos + 1])

\* heapq._siftup
RECURSIVE SiftUpLoop(_, _, _, _)
SiftUpLoop(heap, startpos, pos, newitem) ==
    LET endpos == Len(heap)
        childpos == 2 * pos + 1
        rightpos == childpos + 1
    IN  IF childpos < endpos
        THEN LET c == IF rightpos < endpos
                         /\ ~ItemLess(heap[childpos + 1], heap[rightpos + 1])
                      THEN rightpos ELSE childpos
             IN  SiftUpLoop([heap EXCEPT ![pos + 1] = heap[c + 1]],
                            startpos, c, newitem)
        ELSE SiftDown([heap EXCEPT ![pos + 1] = newitem], startpos, pos)

SiftUp(heap, pos) == SiftUpLoop(heap, pos, pos, heap[pos + 1])

\* heapq.heappush
HeapPush(heap, item) == SiftDown(Append(heap, item), 0, Len(heap))

\* overwrite the last slot instead of the root
HeapReplaceLast(heap, item) == [heap EXCEPT ![Len(heap)] = item]

\* heapq.heapreplace
HeapReplace(heap, item) == SiftUp([heap EXCEPT ![1] = item], 0)

\* the guards with the slips an edit of the comparisons would make
RawGuardInclusive(raw, max_enum) == raw >= max_enum
BelowCapacityInclusive(heap, topk) == Len(heap) <= topk
AdmitsUnnegated(E, worst_E) == E < -worst_E
AdmitsOrEqual(E, worst_E) == E <= worst_E

\* the guards of _scan_one_folder
RawGuard(raw, max_enum) == raw > max_enum
UniqueGuard(n_unique, max_unique) == n_unique >= max_unique
BelowCapacity(heap, topk) == Len(heap) < topk
Admits(E, worst_E) == E < worst_E

\* the selection step on one result (E, labels), the done-th to arrive
Select(heap, topk, E, d, labels) ==
    LET item == <<-E, d, labels>>
    IN  IF BelowCapacity(heap, topk)
        THEN HeapPush(heap, item)
        ELSE LET worst_E == -heap[1][1]
             IN  IF Admits(E, worst_E) THEN HeapReplace(heap, item) ELSE heap

(***************************************************************************)
(* Result Assembler                                                        *)
(***************************************************************************)
\* the insertion of a sort keyed on the arrival index x[1]
InsertByIdx(sorted, e) ==
    LET k == Cardinality({i \in 1..Len(sorted) : sorted[i][2] <= e[2]})
    IN  SubSeq(sorted, 1, k) \o <<e>> \o SubSeq(sorted, k + 1, Len(sorted))

\* sorted(..., key=lambda x: x[0]): stable, ascending in E
RECURSIVE SortedByE(_)
InsertByE(sorted, e) ==
    LET k == Cardinality({i \in 1..Len(sorted) : sorted[i][1] <= e[1]})
    IN  SubSeq(sorted, 1, k) \o <<e>> \o SubSeq(sorted, k + 1, Len(sorted))
SortedByE(s) ==
    IF s = << >> THEN << >> ELSE InsertByE(SortedByE(SubSeq(s, 1, Len(s) - 1)), s[Len(s)])

\* the heap's own order, without the sort
BestUnsorted(heap) ==
    [i \in 1..Len(heap) |-> <<-heap[i][1], heap[i][2], heap[i][3]>>]

BestSorted(heap) ==
    SortedByE([i \in 1..Len(heap) |-> <<-heap[i][1], heap[i][2], heap[i][3]>>])

\* a decoration that writes label pos to site pos, not to sub_idx[pos]
DecorateByPosition(struct, sublattice_indices, labels, l2e) ==
    [struct EXCEPT
       !.sites = [i \in 1..Len(struct.sites) |->
                    IF i <= Len(sublattice_indices)
                    THEN [el |-> l2e[labels[i]], x |-> struct.sites[i].x]
                    ELSE struct.sites[i]]]

\* the loop at lines 440-441 (and 333-334 in the worker): the decorated
\* structure of a label vector
Decorate(struct, sublattice_indices, labels, l2e) ==
    [struct EXCEPT
       !.sites = [i \in 1..Len(struct.sites) |->
                    IF \E pos \in 1..Len(sublattice_indices) : sublattice_indices[pos] = i
                    THEN LET pos == CHOOSE q \in 1..Len(sublattice_indices) :
                                        sublattice_indices[q] = i
                         IN  [el |-> l2e[labels[pos]], x |-> struct.sites[i].x]
                    ELSE struct.sites[i]]]

\* order_index.get(el, 999)
OrderIndex(order, el) ==
    IF \E i \in 1..Len(order) : order[i] = el
    THEN (CHOOSE i \in 1..Len(order) :
             order[i] = el /\ \A k \in (i + 1)..Len(order) : order[k] # el) - 1
    ELSE 999

\* the sort key of _reorder_sites, compared as a tuple; the lattice is
\* one-dimensional, so frac_coords[2] and frac_coords[1] are 0
SiteKeyLess(order, a, b) ==
    LET ia == OrderIndex(order, a.el)
        ib == OrderIndex(order, b.el)
    IN  \/ ia < ib
        \/ ia = ib /\ ElRank(a.el) < ElRank(b.el)
        \/ ia = ib /\ a.el = b.el /\ a.x < b.x

\* _reorder_sites: sorted() is stable
RECURSIVE SortSites(_, _)
InsertSite(order, sorted, e) ==
    LET k == Cardinality({i \in 1..Len(sorted) : ~SiteKeyLess(order, e, sorted[i])})
    IN  SubSeq(sorted, 1, k) \o <<e>> \o SubSeq(sorted, k + 1, Len(sorted))
SortSites(order, sites) ==
    IF sites = << >> THEN << >>
    ELSE InsertSite(order, SortSites(order, SubSeq(sites, 1, Len(sites) - 1)),
                    sites[Len(sites)])

ReorderSites(struct, order) == [struct EXCEPT !.sites = SortSites(order, struct.sites)]

\* _dopant_signature_from_labels: the parts "<el><pos>" (pos 0-based) that
\* are joined with "_"; the single part <<"pristine", -1>> for "pristine"
DopantSignature(labels, l2e) ==
    LET nonhost == SelectSeq([i \in 1..Len(labels) |-> i], LAMBDA i : labels[i] # 0)
        parts == [k \in 1..Len(nonhost) |-> <<l2e[labels[nonhost[k]]], nonhost[k] - 1>>]
    IN  IF parts # << >> THEN parts ELSE << <<"pristine", -1>> >>

\* the rows with ranks counted from 0
RankingRowsZeroBased(best_sorted, struct, sublattice_indices, l2e, order) ==
    [r \in 1..Len(best_sorted) |->
        [rank |-> r - 1,
         E |-> best_sorted[r][1],
         eval_order_index |-> best_sorted[r][2],
         labels |-> best_sorted[r][3],
         signature |-> DopantSignature(best_sorted[r][3], l2e),
         poscar |-> ReorderSites(
                       Decorate(struct, sublattice_indices, best_sorted[r][3], l2e),
                       order)]]

\* the loop at lines 438-491: one row per ranked candidate
RankingRows(best_sorted, struct, sublattice_indices, l2e, order) ==
    [r \in 1..Len(best_sorted) |->
        [rank |-> r,
         E |-> best_sorted[r][1],
         eval_order_index |-> best_sorted[r][2],
         labels |-> best_sorted[r][3],
         signature |-> DopantSignature(best_sorted[r][3], l2e),
         poscar |-> ReorderSites(
                       Decorate(struct, sublattice_indices, best_sorted[r][3], l2e),
                       order)]]

\* the writes of lines 438-522 for n ranked candidates, in their order
RECURSIVE WriteLog(_)
WriteLog(n) ==
    IF n = 0 THEN << <<"ranking_scan.csv", 0>>, <<"scan_summary.txt", 0>> >>
    ELSE LET rest == WriteLog(n - 1)
         IN  SubSeq(rest, 1, Len(rest) - 2)
               \o << <<"candidate/01_scan/POSCAR", n>>, <<"candidate/01_scan/meta.json", n>> >>
               \o SubSeq(rest, Len(rest) - 1, Len(rest))

\* the files written for the ranked candidates, then the CSV and the summary
OutputFiles(best_sorted) ==
    { <<"candidate/01_scan/POSCAR", rank>> : rank \in 1..Len(best_sorted) }
      \cup { <<"candidate/01_scan/meta.json", rank>> : rank \in 1..Len(best_sorted) }
      \cup { <<"ranking_scan.csv", 0>>, <<"scan_summary.txt", 0>> }

(***************************************************************************)
(* State of one call of _scan_one_folder                                   *)
(***************************************************************************)
VARIABLES
    base,                \* the structure read from the folder's POSCAR
    cfg,                 \* the ScanConfig
    pc,                  \* position in _scan_one_folder
    sub_idx, dopant_counts, host_count, N, raw_ncfg,
    perms,               \* the unique permutations on the sublattice
    label_to_el, dopant_label_counts,
    seen, unique_labels, checked_raw,
    jobs,                \* the jobs handed to the pool
    pending,             \* indices of the jobs whose result has not arrived
    best,                \* the heap
    done,                \* number of results consumed
    arrived,             \* the results consumed so far, in arrival order
    files,               \* what has been written into the structure folder
    ranking,             \* the ranked candidates written (ranking_rows)
    folders,             \* run_scan: the structure folders, in sorted order
    cur,                 \* run_scan: index of the folder being processed
    runs                 \* how the earlier calls of run_scan ended

vars == <<base, cfg, pc, sub_idx, dopant_counts, host_count, N, raw_ncfg,
          perms, label_to_el, dopant_label_counts, seen, unique_labels,
          checked_raw, jobs, pending, best, done, arrived, files, ranking,
          folders, cur, runs>>

resolved == <<sub_idx, dopant_counts, host_count, N, raw_ncfg>>
labelmap == <<label_to_el, dopant_label_counts>>
dedup == <<seen, unique_labels, checked_raw>>
scoring == <<jobs, pending, best, done, arrived>>
run == <<folders, cur, runs>>

Init ==
    /\ base \in Structures
    /\ cfg \in Configs
    /\ pc = "start"
    /\ sub_idx = << >> /\ dopant_counts = << >> /\ host_count = 0
    /\ N = 0 /\ raw_ncfg = 0
    /\ perms = << >>
    /\ label_to_el = << >> /\ dopant_label_counts = << >>
    /\ seen = {} /\ unique_labels = << >> /\ checked_raw = 0
    /\ jobs = << >> /\ pending = {} /\ best = << >> /\ done = 0
    /\ arrived = << >>
    /\ files = {}
    /\ ranking = << >>
    /\ folders = << >> /\ cur = 0 /\ runs = << >>

\* lines 344-360: resolve the sublattice and estimate the raw count
Resolve ==
    /\ pc = "start"
    /\ LET r == InferSublattice(base, cfg.host_species, cfg.anion_species)
       IN  IF ~r.ok
           THEN /\ pc' = "config_error"
                /\ UNCHANGED resolved
           ELSE /\ sub_idx' = r.sub_idx
                /\ dopant_counts' = r.dopant_counts
                /\ host_count' = r.host_count
                /\ N' = Len(r.sub_idx)
                /\ raw_ncfg' = EstimateNumConfigs(Len(r.sub_idx), r.dopant_counts)
                /\ pc' = "guard"
    /\ UNCHANGED <<base, cfg, perms, labelmap, dedup, scoring, files, ranking, run>>

\* lines 362-369: the raw-count guard and the consistency check
SizeGuard ==
    /\ pc = "guard"
    /\ pc' = IF RawGuard(raw_ncfg, cfg.max_enum) THEN "raw_error"
             ELSE IF host_count
                       + SeqSum([i \in 1..Len(dopant_counts) |-> dopant_counts[i][2]])
                       # N
                  THEN "count_error"
                  ELSE "symmetry"
    /\ UNCHANGED <<base, cfg, resolved, perms, labelmap, dedup, scoring, files, ranking, run>>

\* lines 371-373: the symmetry analysis
BuildSymmetry ==
    /\ pc = "symmetry"
    /\ LET parent == MakeParentStructure(base, sub_idx, cfg.host_species)
           r == BuildSymmetryPermutations(parent, sub_idx, cfg.symprec)
       IN  /\ perms' = r.perms
           /\ pc' = IF r.ok THEN "labelmap" ELSE "match_error"
    /\ UNCHANGED <<base, cfg, resolved, labelmap, dedup, scoring, files, ranking, run>>

\* lines 375-389: the label mapping
LabelMap ==
    /\ pc = "labelmap"
    /\ LET dopants_sorted == SortedItems(dopant_counts)
       IN  /\ label_to_el' = LabelToEl(cfg.host_species, dopants_sorted)
           /\ dopant_label_counts' = DopantLabelCounts(dopants_sorted)
    /\ pc' = "enumerate"
    /\ UNCHANGED <<base, cfg, resolved, perms, dedup, scoring, files, ranking, run>>

\* the deduplication loop handing each new unique vector to the pool at once
EnumStepStreaming ==
    /\ pc = "enumerate"
    /\ LET configs == EnumerateLabelConfigs(N, dopant_label_counts)
       IN  /\ checked_raw < Len(configs)
           /\ LET labels == configs[checked_raw + 1]
                  key == CanonicalKey(labels, perms)
              IN  /\ checked_raw' = checked_raw + 1
                  /\ IF key \in seen
                     THEN UNCHANGED <<seen, unique_labels, pc, jobs, pending>>
                     ELSE /\ seen' = seen \cup {key}
                          /\ unique_labels' = Append(unique_labels, labels)
                          /\ jobs' = Append(jobs, labels)
                          /\ pending' = pending \cup {Len(jobs) + 1}
                          /\ pc' = IF UniqueGuard(Len(unique_labels) + 1, cfg.max_unique)
                                   THEN "unique_error" ELSE "enumerate"
    /\ UNCHANGED <<base, cfg, resolved, perms, labelmap, best, done, arrived, files, ranking, run>>

\* the loop without seen.add(key)
EnumStepNoSeenAdd ==
    /\ pc = "enumerate"
    /\ LET configs == EnumerateLabelConfigs(N, dopant_label_counts)
       IN  /\ checked_raw < Len(configs)
           /\ LET labels == configs[checked_raw + 1]
                  key == CanonicalKey(labels, perms)
              IN  /\ checked_raw' = checked_raw + 1
                  /\ IF key \in seen
                     THEN UNCHANGED <<seen, unique_labels, pc>>
                     ELSE /\ seen' = seen
                          /\ unique_labels' = Append(unique_labels, labels)
                          /\ pc' = IF UniqueGuard(Len(unique_labels) + 1, cfg.max_unique)
                                   THEN "unique_error" ELSE "enumerate"
    /\ UNCHANGED <<base, cfg, resolved, perms, labelmap, scoring, files, ranking, run>>

\* lines 391-403: one iteration of the deduplication loop
EnumStep ==
    /\ pc = "enumerate"
    /\ LET configs == EnumerateLabelConfigs(N, dopant_label_counts)
       IN  /\ checked_raw < Len(configs)
           /\ LET labels == configs[checked_raw + 1]
                  key == CanonicalKey(labels, perms)
              IN  /\ checked_raw' = checked_raw + 1
                  /\ IF key \in seen
                     THEN UNCHANGED <<seen, unique_labels, pc>>
                     ELSE /\ seen' = seen \cup {key}
                          /\ unique_labels' = Append(unique_labels, labels)
                          /\ pc' = IF UniqueGuard(Len(unique_labels) + 1, cfg.max_unique)
                                   THEN "unique_error" ELSE "enumerate"
    /\ UNCHANGED <<base, cfg, resolved, perms, labelmap, scoring, files, ranking, run>>

\* line 274: with more than 3 dopant labels the generator raises ValueError
\* when the loop at line 391 asks for its first vector
EnumRaise ==
    /\ pc = "enumerate"
    /\ EnumeratorRaises(dopant_label_counts)
    /\ pc' = "enum_error"
    /\ UNCHANGED <<base, cfg, resolved, perms, labelmap, dedup, scoring, files, ranking, run>>

\* the job list built without the last unique vector
DispatchDropLast ==
    /\ pc = "enumerate"
    /\ ~EnumeratorRaises(dopant_label_counts)
    /\ checked_raw = Len(EnumerateLabelConfigs(N, dopant_label_counts))
    /\ jobs' = SubSeq(unique_labels, 1, Len(unique_labels) - 1)
    /\ pending' = 1..(Len(unique_labels) - 1)
    /\ best' = << >>
    /\ pc' = "scoring"
    /\ UNCHANGED <<base, cfg, resolved, perms, labelmap, dedup, done, arrived, files, ranking, run>>

\* lines 405-415: the generator is exhausted; the jobs go to the pool
Dispatch ==
    /\ pc = "enumerate"
    /\ ~EnumeratorRaises(dopant_label_counts)
    /\ checked_raw = Len(EnumerateLabelConfigs(N, dopant_label_counts))
    /\ jobs' = unique_labels
    /\ pending' = 1..Len(unique_labels)
    /\ best' = << >>
    /\ pc' = "scoring"
    /\ UNCHANGED <<base, cfg, resolved, perms, labelmap, dedup, done, arrived, files, ranking, run>>

\* lines 411-416: Pool(processes=nproc).imap_unordered hands the jobs out in
\* list order, one per idle worker (chunksize 1), so job j has started only
\* when fewer than nproc jobs before it are still unfinished
Started(j) == j <= done + cfg.nproc * cfg.chunksize

\* line 408 and lines 327-328: the structure travels to the worker as a dict
AsDict(struct) ==
    [lattice |-> <<struct.G, struct.loose>>,
     sites |-> [i \in 1..Len(struct.sites) |->
                  [species |-> struct.sites[i].el, abc |-> struct.sites[i].x]]]

FromDict(d) ==
    [G |-> d.lattice[1],
     sites |-> [i \in 1..Len(d.sites) |->
                  [el |-> d.sites[i].species, x |-> d.sites[i].abc]],
     loose |-> d.lattice[2]]

\* lines 329-334: the structure the worker of job j builds and scores
WorkerStructure(j) ==
    Decorate(FromDict(AsDict(base)), sub_idx, jobs[j], label_to_el)

\* the coordinator pairing the score with the next vector of the job list
ConsumeInOrder(j, E) ==
    /\ pc = "scoring"
    /\ j \in pending
    /\ Started(j)
    /\ pending' = pending \ {j}
    /\ done' = done + 1
    /\ best' = Select(best, cfg.topk, E, done + 1, jobs[done + 1])
    /\ arrived' = Append(arrived, [E |-> E, labels |-> jobs[j], job |-> j])
    /\ UNCHANGED <<base, cfg, pc, resolved, perms, labelmap, dedup, jobs, files, ranking, run>>

\* lines 323-337 and 416-426: a worker returns (E, labels) for job j and the
\* coordinator consumes it
Consume(j, E) ==
    /\ pc = "scoring"
    /\ j \in pending
    /\ Started(j)
    /\ pending' = pending \ {j}
    /\ done' = done + 1
    /\ best' = Select(best, cfg.topk, E, done + 1, jobs[j])
    /\ arrived' = Append(arrived, [E |-> E, labels |-> jobs[j], job |-> j])
    /\ UNCHANGED <<base, cfg, pc, resolved, perms, labelmap, dedup, jobs, files, ranking, run>>

\* a failure that flushes the candidates retained so far
ScoreFailFlush(j) ==
    /\ pc = "scoring"
    /\ j \in pending
    /\ Started(j)
    /\ pc' = "score_error"
    /\ files' = files \cup OutputFiles(BestSorted(best))
    /\ UNCHANGED <<base, cfg, resolved, perms, labelmap, dedup, scoring, ranking, run>>

\* line 336 raises in a worker: the exception propagates out of the loop
ScoreFail(j) ==
    /\ pc = "scoring"
    /\ j \in pending
    /\ Started(j)
    /\ pc' = "score_error"
    /\ UNCHANGED <<base, cfg, resolved, perms, labelmap, dedup, scoring, files, ranking, run>>

\* lines 435-524: the outputs
WriteOutputs ==
    /\ pc = "scoring"
    /\ pending = {}
    /\ LET best_sorted == BestSorted(best)
       IN  /\ ranking' = RankingRows(best_sorted, base, sub_idx, label_to_el, cfg.order)
           /\ files' = files \cup OutputFiles(best_sorted)
    /\ folders' = IF cur = 0 THEN folders
                  ELSE [folders EXCEPT
                          ![cur].csv = TRUE,
                          ![cur].written = @ \o WriteLog(Len(best))]
    /\ pc' = "done"
    /\ UNCHANGED <<base, cfg, resolved, perms, labelmap, dedup, scoring, cur, runs>>

Next ==
    \/ Resolve
    \/ SizeGuard
    \/ BuildSymmetry
    \/ LabelMap
    \/ EnumStep
    \/ Dispatch
    \/ \E j \in pending : \E E \in Scores : Consume(j, E)
    \/ \E j \in pending : ScoreFail(j)
    \/ WriteOutputs

Spec == Init /\ [][Next]_vars

\* every structure under the most permissive configuration
InitSym ==
    /\ Init
    /\ cfg.topk = 1 /\ cfg.max_enum = MaxEnumCeil /\ cfg.max_unique = MaxUniqueCeil

SpecSym == InitSym /\ [][Next]_vars

(***************************************************************************)
(* run_scan: the configuration is parsed, then the folders are scanned in  *)
(* their sorted order; outdir is taken to exist.                           *)
(***************************************************************************)
\* line 538: cfg = _parse_scan_config(raw_cfg)
ParseConfig ==
    /\ pc = "parse"
    /\ IF ParseRaises(cfg)
       THEN pc' = "parse_error" /\ cur' = cur
       ELSE pc' = "next" /\ cur' = 1
    /\ UNCHANGED <<base, cfg, resolved, perms, labelmap, dedup, scoring, files,
                   ranking, folders, runs>>

\* the loop of lines 548-559 without the check of ranking_scan.csv
NextFolderNoSkip ==
    /\ pc = "next"
    /\ cur \in 1..Len(folders)
    /\ LET f == folders[cur]
       IN  IF ~f.exists
           THEN /\ cur' = cur + 1
                /\ UNCHANGED <<base, pc, resolved, perms, labelmap, dedup, scoring>>
           ELSE /\ base' = f.poscar
                /\ pc' = "start"
                /\ sub_idx' = << >> /\ dopant_counts' = << >> /\ host_count' = 0
                /\ N' = 0 /\ raw_ncfg' = 0
                /\ perms' = << >>
                /\ label_to_el' = << >> /\ dopant_label_counts' = << >>
                /\ seen' = {} /\ unique_labels' = << >> /\ checked_raw' = 0
                /\ jobs' = << >> /\ pending' = {} /\ best' = << >> /\ done' = 0
                /\ arrived' = << >>
                /\ cur' = cur
    /\ UNCHANGED <<cfg, files, ranking, folders, runs>>

\* lines 548-559: the next folder is skipped or handed to _scan_one_folder,
\* whose locals start afresh
NextFolder ==
    /\ pc = "next"
    /\ cur \in 1..Len(folders)
    /\ LET f == folders[cur]
       IN  IF ~f.exists \/ (cfg.skip_if_done /\ f.csv)
           THEN /\ cur' = cur + 1
                /\ UNCHANGED <<base, pc, resolved, perms, labelmap, dedup, scoring>>
           ELSE /\ base' = f.poscar
                /\ pc' = "start"
                /\ sub_idx' = << >> /\ dopant_counts' = << >> /\ host_count' = 0
                /\ N' = 0 /\ raw_ncfg' = 0
                /\ perms' = << >>
                /\ label_to_el' = << >> /\ dopant_label_counts' = << >>
                /\ seen' = {} /\ unique_labels' = << >> /\ checked_raw' = 0
                /\ jobs' = << >> /\ pending' = {} /\ best' = << >> /\ done' = 0
                /\ arrived' = << >>
                /\ cur' = cur
    /\ UNCHANGED <<cfg, files, ranking, folders, runs>>

\* line 559: _scan_one_folder returns
FolderDone ==
    /\ pc = "done"
    /\ cur >= 1
    /\ pc' = "next"
    /\ cur' = cur + 1
    /\ UNCHANGED <<base, cfg, resolved, perms, labelmap, dedup, scoring, files,
                   ranking, folders, runs>>

\* line 561: the loop is over
Finish ==
    /\ pc = "next"
    /\ cur > Len(folders)
    /\ pc' = "finished"
    /\ UNCHANGED <<base, cfg, resolved, perms, labelmap, dedup, scoring, files,
                   ranking, run>>

\* a run: any raw configuration over one folder, or a valid configuration
\* over any list of folders
InitRun ==
    /\ \/ /\ cfg \in RawConfigs
          /\ folders \in { <<Dir(1, [exists |-> TRUE, poscar |-> p, csv |-> FALSE])>> :
                              p \in RunStructures }
       \/ /\ cfg \in ValidRunConfigs
          /\ folders \in FolderLists
    /\ cur = 0 /\ runs = << >>
    /\ base = NoStructure
    /\ pc = "parse"
    /\ sub_idx = << >> /\ dopant_counts = << >> /\ host_count = 0
    /\ N = 0 /\ raw_ncfg = 0
    /\ perms = << >>
    /\ label_to_el = << >> /\ dopant_label_counts = << >>
    /\ seen = {} /\ unique_labels = << >> /\ checked_raw = 0
    /\ jobs = << >> /\ pending = {} /\ best = << >> /\ done = 0
    /\ arrived = << >>
    /\ files = {}
    /\ ranking = << >>

NextRun == Next \/ ParseConfig \/ NextFolder \/ FolderDone \/ Finish

SpecRun == InitRun /\ [][NextRun]_vars

\* lines 438-522: a write raises after k files of the folder are on disk
WriteAbort(k) ==
    /\ pc = "scoring"
    /\ pending = {}
    /\ cur >= 1
    /\ k \in 0..(Len(WriteLog(Len(best))) - 1)
    /\ LET log == SubSeq(WriteLog(Len(best)), 1, k)
       IN  /\ files' = files \cup Range(log)
           /\ folders' = [folders EXCEPT
                            ![cur].csv = @ \/ <<"ranking_scan.csv", 0>> \in Range(log),
                            ![cur].written = @ \o log]
    /\ pc' = "write_error"
    /\ UNCHANGED <<base, cfg, resolved, perms, labelmap, dedup, scoring, ranking,
                   cur, runs>>

\* where a call of run_scan ends: line 561, or an exception that leaves it
RunEnded ==
    pc \in {"finished", "parse_error", "config_error", "raw_error", "count_error",
            "match_error", "unique_error", "score_error", "enum_error",
            "write_error"}

\* run_scan is called again with the same configuration on the same outdir
Rerun ==
    /\ RunEnded
    /\ Len(runs) + 1 < MaxRuns
    /\ runs' = Append(runs, [outcome |-> pc, at |-> cur])
    /\ pc' = "parse"
    /\ cur' = 0
    /\ base' = NoStructure
    /\ sub_idx' = << >> /\ dopant_counts' = << >> /\ host_count' = 0
    /\ N' = 0 /\ raw_ncfg' = 0
    /\ perms' = << >>
    /\ label_to_el' = << >> /\ dopant_label_counts' = << >>
    /\ seen' = {} /\ unique_labels' = << >> /\ checked_raw' = 0
    /\ jobs' = << >> /\ pending' = {} /\ best' = << >> /\ done' = 0
    /\ arrived' = << >>
    /\ ranking' = << >>
    /\ UNCHANGED <<cfg, files, folders>>

\* repeated runs with skip_if_done set over any list of folders
InitRerun ==
    /\ cfg \in {c \in ValidRunConfigs : c.skip_if_done}
    /\ folders \in FolderLists
    /\ cur = 0 /\ runs = << >>
    /\ base = NoStructure
    /\ pc = "parse"
    /\ sub_idx = << >> /\ dopant_counts = << >> /\ host_count = 0
    /\ N = 0 /\ raw_ncfg = 0
    /\ perms = << >>
    /\ label_to_el = << >> /\ dopant_label_counts = << >>
    /\ seen = {} /\ unique_labels = << >> /\ checked_raw = 0
    /\ jobs = << >> /\ pending = {} /\ best = << >> /\ done = 0
    /\ arrived = << >>
    /\ files = {}
    /\ ranking = << >>

NextRerun == NextRun \/ (\E k \in 0..(2 * MaxTopk + 1) : WriteAbort(k)) \/ Rerun

SpecRerun == InitRerun /\ [][NextRerun]_vars

\* scans of the short cells, where the analyzer's operations are inexact
InitMatch ==
    /\ base \in MatchStructures
    /\ cfg \in [ topk : 1..MaxTopk, max_enum : {MaxEnumCeil},
                 max_unique : {MaxUniqueCeil}, symprec : {1}, nproc : {1, 2},
                 chunksize : {1}, order : {PoscarOrder}, host_species : {HostEl},
                 anion_species : {AnionEls}, skip_if_done : {TRUE} ]
    /\ pc = "start"
    /\ sub_idx = << >> /\ dopant_counts = << >> /\ host_count = 0
    /\ N = 0 /\ raw_ncfg = 0
    /\ perms = << >>
    /\ label_to_el = << >> /\ dopant_label_counts = << >>
    /\ seen = {} /\ unique_labels = << >> /\ checked_raw = 0
    /\ jobs = << >> /\ pending = {} /\ best = << >> /\ done = 0
    /\ arrived = << >>
    /\ files = {}
    /\ ranking = << >>
    /\ folders = << >> /\ cur = 0 /\ runs = << >>

SpecMatch == InitMatch /\ [][Next]_vars

\* the five-site ring with up to four dopant species, one configuration
InitEnum ==
    /\ base \in EnumStructures
    /\ cfg = [topk |-> 1, max_enum |-> EnumRawCeil, max_unique |-> EnumUniqueCeil,
              symprec |-> 1, nproc |-> 1, chunksize |-> 1, order |-> PoscarOrder,
              host_species |-> HostEl, anion_species |-> AnionEls,
              skip_if_done |-> TRUE]
    /\ pc = "start"
    /\ sub_idx = << >> /\ dopant_counts = << >> /\ host_count = 0
    /\ N = 0 /\ raw_ncfg = 0
    /\ perms = << >>
    /\ label_to_el = << >> /\ dopant_label_counts = << >>
    /\ seen = {} /\ unique_labels = << >> /\ checked_raw = 0
    /\ jobs = << >> /\ pending = {} /\ best = << >> /\ done = 0
    /\ arrived = << >>
    /\ files = {}
    /\ ranking = << >>
    /\ folders = << >> /\ cur = 0 /\ runs = << >>

NextEnum == Next \/ EnumRaise

SpecEnum == InitEnum /\ [][NextEnum]_vars

(***************************************************************************)
(* Properties                                                              *)
(***************************************************************************)
Identity(n) == [i \in 1..n |-> i]
MaxLabel == 2
PermsBuilt == pc \in {"labelmap", "enumerate", "scoring", "done",
                      "unique_error", "score_error", "enum_error"}
ScoresOf(heap) == [i \in 1..Len(heap) |-> -heap[i][1]]
ArrivedScores == [i \in 1..Len(arrived) |-> arrived[i].E]
Retained(i) == \E h \in 1..Len(best) : best[h][2] = i
Min2(a, b) == IF a < b THEN a ELSE b

\* ascending sort of a sequence of integers
RECURSIVE SortInts(_)
SortInts(s) ==
    IF s = << >> THEN << >>
    ELSE LET m == CHOOSE i \in 1..Len(s) : \A k \in 1..Len(s) : s[i] <= s[k]
         IN  <<s[m]>> \o SortInts(SubSeq(s, 1, m - 1) \o SubSeq(s, m + 1, Len(s)))

\* C1: when the builder has returned its permutations, for every label
\* vector L and every returned permutation p the canonical key of L equals
\* the canonical key of L reindexed by p.
C1_KeyInvariantUnderPerms ==
    pc = "labelmap" =>
        \A L \in [1..N -> 0..MaxLabel] :
            LET key == CanonicalKey(L, perms)
            IN  \A k \in 1..Len(perms) :
                    key = CanonicalKey(Reindex(L, perms[k]), perms)

\* a non-commutative action: all 8 permutations of the 4-site ring, and a
\* vector some permutation moves
C1_Witness ==
    /\ pc = "labelmap"
    /\ N = 4 /\ Len(perms) = 8 /\ Len(dopant_counts) = 1
    /\ \E k \in 1..Len(perms) : Reindex(<<1, 1, 0, 0>>, perms[k]) # <<1, 1, 0, 0>>

\* C2: once every result has been consumed, the scores held in the heap are
\* the min(topk, number of results) smallest scores that arrived, as a
\* multiset, whatever the arrival order.
C2_RetainsKSmallest ==
    (pc \in {"scoring", "done"} /\ pending = {}) =>
        SortInts(ScoresOf(best))
            = SubSeq(SortInts(ArrivedScores), 1, Min2(cfg.topk, Len(arrived)))

\* K = 2, four results, the smallest arrives last and evicts a retained one
C2_Witness ==
    /\ pc = "done" /\ cfg.topk = 2
    /\ ArrivedScores = <<2, 1, 2, 0>>
    /\ SortInts(ScoresOf(best)) = <<0, 1>>

\* C3: the heap never holds more than topk candidates.
C3_AtMostTopk == Len(best) <= cfg.topk

C3_Witness ==
    /\ pc = "scoring" /\ Len(best) = cfg.topk /\ Len(arrived) > cfg.topk

\* C4: while the heap holds topk candidates, every arrived candidate that is
\* not in the heap has a score at least the largest score in the heap.
C4_ExcludedNotBetter ==
    Len(best) = cfg.topk =>
        \A i \in 1..Len(arrived) :
            ~Retained(i) =>
                \A h \in 1..Len(best) : arrived[i].E >= -best[h][1]

\* one candidate was inserted below capacity and evicted later, another was
\* rejected on arrival
C4_Witness ==
    /\ Len(best) = cfg.topk
    /\ \E i \in 1..Len(arrived) : i <= cfg.topk /\ ~Retained(i)
    /\ \E i \in 1..Len(arrived) :
          /\ i > cfg.topk /\ ~Retained(i)
          /\ \E k \in 1..(i - 1) : Retained(k) /\ arrived[k].E <= arrived[i].E

\* C5: when a scoring call has failed, nothing has been written for the
\* structure: no candidate directory, no meta.json, no ranking_scan.csv, no
\* scan_summary.txt.
C5_FailurePersistsNothing == pc = "score_error" => files = {}

\* the failure comes after candidates were scored and retained
C5_Witness ==
    /\ pc = "score_error" /\ Len(arrived) >= 2 /\ Len(best) >= 1

\* C6: the raw-count error is raised exactly when the estimate exceeds
\* max_enum, and when it is raised no symmetry analysis has run, no vector
\* has been enumerated, no job exists and no result has been consumed.
C6_RawGuard ==
    /\ pc = "raw_error" =>
          /\ raw_ncfg > cfg.max_enum
          /\ perms = << >> /\ checked_raw = 0 /\ unique_labels = << >>
          /\ seen = {} /\ jobs = << >> /\ pending = {} /\ done = 0
          /\ arrived = << >> /\ files = {}
    /\ (PermsBuilt \/ pc \in {"symmetry", "count_error", "match_error"}) =>
          raw_ncfg <= cfg.max_enum

C6_Witness ==
    /\ pc = "raw_error" /\ raw_ncfg = 6 /\ cfg.max_enum = 5

\* C7 (as claimed): the unique-count error is raised only when the number of
\* symmetry-distinct configurations exceeds max_unique.
NumSymDistinct ==
    Cardinality({CanonicalKey(L, perms) :
                    L \in Range(EnumerateLabelConfigs(N, dopant_label_counts))})
C7_RaisesOnlyWhenExceeded ==
    pc = "unique_error" => NumSymDistinct > cfg.max_unique

\* C8: when a sizing error is raised, no job has been handed to the pool and
\* no result has been consumed.
C8_GuardsBeforeScoring ==
    pc \in {"raw_error", "unique_error"} =>
        jobs = << >> /\ pending = {} /\ done = 0 /\ arrived = << >> /\ best = << >>

\* the unique-count guard fires after several vectors were deduplicated
\* under a non-trivial symmetry
C8_Witness ==
    /\ pc = "unique_error" /\ Len(unique_labels) >= 3 /\ Len(perms) > 1

\* C9: with the identity as the only permutation, every enumerated vector is
\* retained: the number of unique vectors equals the number of vectors
\* enumerated, and after the loop that is the whole enumeration.
C9_IdentityKeepsAll ==
    (PermsBuilt /\ perms = <<Identity(N)>>) =>
        /\ Len(unique_labels) = checked_raw
        /\ pc \in {"scoring", "done", "score_error"} =>
              /\ checked_raw = raw_ncfg
              /\ Cardinality(Range(unique_labels)) = raw_ncfg

\* N = 4, one dopant with count 1, identity only: raw = unique = 4
C9_Witness ==
    /\ pc = "scoring" /\ perms = <<Identity(4)>> /\ N = 4
    /\ Len(dopant_counts) = 1 /\ dopant_counts[1][2] = 1
    /\ checked_raw = 4 /\ Len(unique_labels) = 4

\* C10 (as claimed): a sublattice carrying only the host yields one vector,
\* one unique vector, and that candidate goes on to scoring.
ZeroNonHost ==
    /\ \E i \in 1..Len(base.sites) : base.sites[i].el = cfg.host_species
    /\ \A i \in 1..Len(base.sites) :
          base.sites[i].el \in cfg.anion_species \cup {cfg.host_species}
C10_PristineIsScored ==
    (ZeroNonHost /\ pc \notin {"start", "guard", "symmetry", "labelmap"}) =>
        /\ pc \in {"enumerate", "scoring", "done", "score_error"}
        /\ (pc # "enumerate" =>
              checked_raw = 1 /\ Len(unique_labels) = 1 /\ Len(jobs) = 1)

\* C11: the ranked output of a completed scan has min(topk, number of
\* unique candidates) rows, row r carries rank r, and one candidate
\* directory is written per rank.
C11_ContiguousRanks ==
    pc = "done" =>
        /\ Len(ranking) = Min2(cfg.topk, Len(unique_labels))
        /\ \A r \in 1..Len(ranking) : ranking[r].rank = r
        /\ {f[2] : f \in {g \in files : g[1] = "candidate/01_scan/POSCAR"}}
              = 1..Len(ranking)

\* more unique candidates than topk: K' = topk = 2
C11_Witness ==
    /\ pc = "done" /\ cfg.topk = 2 /\ Len(unique_labels) = 4 /\ Len(ranking) = 2

\* C12: in the ranked output the scores are non-decreasing in rank.
C12_ScoresAscending ==
    pc = "done" =>
        \A i \in 1..Len(ranking) : \A j \in 1..Len(ranking) :
            i < j => ranking[i].E <= ranking[j].E

\* the better of the two ranked candidates arrived after the other
C12_Witness ==
    /\ pc = "done" /\ Len(ranking) = 2 /\ ranking[1].E < ranking[2].E
    /\ ranking[1].eval_order_index > ranking[2].eval_order_index

\* C13: when the scores of all results are pairwise distinct, the ranked
\* list is determined by the set of (label vector, score) pairs alone: row
\* r is the result with exactly r-1 smaller scores, whatever the order in
\* which the results arrived.
DistinctScores ==
    \A i \in 1..Len(arrived) : \A j \in 1..Len(arrived) :
        i # j => arrived[i].E # arrived[j].E
C13_RankingIgnoresArrivalOrder ==
    (pc = "done" /\ DistinctScores) =>
        /\ Len(ranking) = Min2(cfg.topk, Len(arrived))
        /\ \A r \in 1..Len(ranking) :
              LET a == CHOOSE a \in Range(arrived) :
                          Cardinality({b \in Range(arrived) : b.E < a.E}) = r - 1
              IN  /\ ranking[r].rank = r
                  /\ ranking[r].labels = a.labels
                  /\ ranking[r].E = a.E
                  /\ ranking[r].signature = DopantSignature(a.labels, label_to_el)

\* three distinct scores, K = 2, arriving neither in job order nor in
\* score order
C13_Witness ==
    /\ pc = "done" /\ DistinctScores /\ Len(arrived) = 3 /\ cfg.topk = 2
    /\ arrived[1].job = 2 /\ arrived[1].E = 1 /\ arrived[2].E = 2 /\ arrived[3].E = 0

\* C14: in the structure written for every ranked candidate, the species
\* counted on the sublattice positions are the inferred counts (each dopant
\* its count, the host the remainder), and every spectator site is the
\* base structure's.
SubCoords == {base.sites[sub_idx[k]].x : k \in 1..Len(sub_idx)}
CountOn(struct, coords, el) ==
    Cardinality({i \in 1..Len(struct.sites) :
                    struct.sites[i].x \in coords /\ struct.sites[i].el = el})
ConfiguredCount(el) ==
    IF el = cfg.host_species THEN host_count
    ELSE IF el \in Keys(dopant_counts) THEN dopant_counts[Lookup(dopant_counts, el)][2]
    ELSE 0
C14_RoundTripCounts ==
    pc = "done" =>
        \A r \in 1..Len(ranking) :
            LET s == ranking[r].poscar
            IN  /\ Len(s.sites) = Len(base.sites)
                /\ \A el \in {"Hf", "Nb", "O", "Ta", "Ti", "Zr"} :
                      CountOn(s, SubCoords, el) = ConfiguredCount(el)
                /\ \A i \in 1..Len(base.sites) :
                      base.sites[i].x \notin SubCoords =>
                          \E j \in 1..Len(s.sites) : s.sites[j] = base.sites[i]

\* two dopant species, a spectator site, two ranked candidates
C14_Witness ==
    /\ pc = "done" /\ Len(dopant_counts) = 2 /\ Len(ranking) = 2
    /\ \E i \in 1..Len(base.sites) : base.sites[i].el = "O"

\* C16: the index stored with a candidate is its position in
\* the list of unique label vectors.
C16_IndexIsListPosition ==
    /\ \A h \in 1..Len(best) : jobs[best[h][2]] = best[h][3]
    /\ pc = "done" =>
          \A r \in 1..Len(ranking) :
              unique_labels[ranking[r].eval_order_index] = ranking[r].labels

\* C19: when the symmetry operations of the parent contain the identity
\* operation, the permutation set returned by the builder contains the
\* identity permutation.
HasIdentityOp(ops) == \E o \in 1..Len(ops) : ops[o].R = 1 /\ ops[o].t = 0
C19_IdentityPermutation ==
    (/\ PermsBuilt
     /\ HasIdentityOp(SymmetryOperations(
                          MakeParentStructure(base, sub_idx, cfg.host_species),
                          cfg.symprec)))
        => Identity(N) \in Range(perms)

\* a sublattice with several induced permutations, the identity among them
C19_Witness ==
    /\ pc = "labelmap" /\ N = 4 /\ Len(perms) = 8
    /\ Identity(N) \in Range(perms)

\* C20: for every structure the resolver accepts, host_count plus the
\* inferred dopant counts is the sublattice size N, the consistency check
\* never fails, and N and the counts do not change during the scan.
Accepted == pc \notin {"start", "config_error"}
CountsSumToN ==
    Accepted =>
        /\ N = Len(sub_idx)
        /\ host_count + SeqSum([k \in 1..Len(dopant_counts) |-> dopant_counts[k][2]]) = N
        /\ host_count >= 1
C20_CountsConsistent ==
    /\ [](pc # "count_error" /\ CountsSumToN)
    /\ [][Accepted => UNCHANGED resolved]_vars

\* a completed scan of a sublattice shared by the host and two dopants
C20_Witness ==
    /\ pc = "done" /\ N = 3 /\ host_count = 1 /\ Len(dopant_counts) = 2
    /\ Len(ranking) >= 1

\* the sequential placement for any number of species: positions for the
\* first item from the pool, the next item from what is left, and so on
RECURSIVE Place(_, _, _)
Place(pool, items, labels) ==
    IF items = << >> THEN << labels >>
    ELSE LET As == Combinations(pool, Head(items)[2])
         IN  Concat([a \in 1..Len(As) |->
                 Place(SelectSeq(pool, LAMBDA q : \A k \in 1..Len(As[a]) : As[a][k] # q),
                       Tail(items),
                       [i \in 1..Len(labels) |->
                           IF \E k \in 1..Len(As[a]) : As[a][k] = i
                           THEN Head(items)[1] ELSE labels[i]])])
AtGeneratorStart == pc = "enumerate" /\ checked_raw = 0

\* C15 (as claimed): for any number of dopant species the enumerator yields
\* the vectors of the sequential placement and never raises.
C15_AnyArity ==
    /\ pc # "enum_error"
    /\ AtGeneratorStart =>
          /\ ~EnumeratorRaises(dopant_label_counts)
          /\ EnumerateLabelConfigs(N, dopant_label_counts)
                = Place([i \in 1..N |-> i], dopant_label_counts, Zeros(N))

\* C15 (amended): for at most 3 dopant species the enumerator yields the
\* vectors of the sequential placement, in its order; for more than 3 it
\* raises before yielding any vector and the scan ends there.
C15_UpToThreeSpecies ==
    /\ AtGeneratorStart =>
          IF Len(dopant_label_counts) <= 3
          THEN /\ ~EnumeratorRaises(dopant_label_counts)
               /\ EnumerateLabelConfigs(N, dopant_label_counts)
                     = Place([i \in 1..N |-> i], dopant_label_counts, Zeros(N))
          ELSE /\ EnumeratorRaises(dopant_label_counts)
               /\ ~ENABLED EnumStep /\ ~ENABLED Dispatch
    /\ pc = "enum_error" =>
          /\ Len(dopant_label_counts) > 3
          /\ checked_raw = 0 /\ unique_labels = << >> /\ jobs = << >> /\ files = {}
    /\ pc \in {"scoring", "done"} => Len(dopant_label_counts) <= 3

\* three dopant species placed one after the other, the scan completed
C15_Witness ==
    /\ pc = "done" /\ Len(dopant_label_counts) = 3 /\ checked_raw = 60
    /\ Len(unique_labels) = 6

\* C17: a configuration with a non-positive topk, symprec, max_enum, nproc,
\* chunksize or max_unique, an empty anion list, an empty host species or
\* an empty poscar order ends the run in the configuration error, with no
\* folder read, no enumeration started and no scoring call issued.
ClaimedInvalid(c) ==
    \/ c.topk <= 0 \/ c.symprec <= 0 \/ c.max_enum <= 0
    \/ c.nproc <= 0 \/ c.chunksize <= 0 \/ c.max_unique <= 0
    \/ c.anion_species = {} \/ c.host_species = "" \/ c.order = << >>
NothingComputed ==
    /\ base = NoStructure /\ sub_idx = << >> /\ perms = << >>
    /\ checked_raw = 0 /\ unique_labels = << >>
    /\ jobs = << >> /\ done = 0 /\ arrived = << >>
    /\ files = {}
C17_InvalidConfigRaisesFirst ==
    /\ (ClaimedInvalid(cfg) /\ pc # "parse") =>
          (pc = "parse_error" /\ cur = 0 /\ NothingComputed)
    /\ pc = "parse_error" => ClaimedInvalid(cfg)

\* the only invalid knob is the last one the parser could look at, and a
\* folder with a POSCAR is waiting
C17_Witness ==
    /\ pc = "parse_error" /\ cfg.chunksize = 0
    /\ cfg.topk = 1 /\ cfg.symprec = 1 /\ cfg.max_enum > 0 /\ cfg.nproc = 1
    /\ cfg.max_unique > 0 /\ cfg.order # << >> /\ cfg.host_species # ""
    /\ cfg.anion_species # {}
    /\ Len(folders) = 1 /\ folders[1].exists

\* C18: when the missing-host error is raised, no symmetry analysis,
\* enumeration or scoring has been done and nothing has been persisted for
\* any folder of the run.
C18_HostErrorBeforeAnyResult ==
    pc = "config_error" =>
        /\ perms = << >> /\ checked_raw = 0 /\ jobs = << >> /\ done = 0
        /\ files = {}

\* the retained candidates as a set, and the step that consumes a result
HeapSet(heap) == {heap[h] : h \in 1..Len(heap)}
ConsumeStep == pc = "scoring" /\ done' = done + 1
Incoming == <<-arrived'[done'].E, done', arrived'[done'].labels>>
MaxRetained(heap) ==
    CHOOSE E \in {-heap[h][1] : h \in 1..Len(heap)} :
        \A h \in 1..Len(heap) : -heap[h][1] <= E

\* C21: a result arriving below capacity is always inserted; at capacity it
\* replaces one retained candidate only if its score is strictly smaller
\* than the maximum retained score, and otherwise the retained set is left
\* as it was.
C21_SelectorStep ==
    [][ConsumeStep =>
          IF Len(best) < cfg.topk
          THEN HeapSet(best') = HeapSet(best) \cup {Incoming}
               /\ Len(best') = Len(best) + 1
          ELSE IF arrived'[done'].E < MaxRetained(best)
               THEN /\ Len(best') = Len(best)
                    /\ Incoming \in HeapSet(best')
                    /\ \E old \in HeapSet(best) :
                          /\ -old[1] = MaxRetained(best)
                          /\ HeapSet(best') = (HeapSet(best) \ {old}) \cup {Incoming}
               ELSE best' = best]_vars

\* at capacity, a result equal to the retained maximum was turned away
C21_Witness ==
    /\ pc = "scoring" /\ cfg.topk = 2 /\ Len(arrived) = 3
    /\ arrived[1].E = 0 /\ arrived[2].E = 1 /\ arrived[3].E = 1
    /\ HeapSet(best) = {<<0, 1, arrived[1].labels>>, <<-1, 2, arrived[2].labels>>}

\* C22: the candidate evicted on admission has the maximum retained score
\* and, among the retained candidates with that score, the smallest
\* completion index; the retained items carry pairwise distinct completion
\* indices, so the comparison of two items never reaches the label vectors.
C22_EvictsEarliestMaximum ==
    /\ [](\A h \in 1..Len(best) : \A g \in 1..Len(best) :
              h # g => best[h][2] # best[g][2])
    /\ [][(ConsumeStep /\ Len(best) = cfg.topk /\ best' # best) =>
            \A old \in HeapSet(best) \ HeapSet(best') :
                /\ -old[1] = MaxRetained(best)
                /\ \A h \in 1..Len(best) :
                      -best[h][1] = MaxRetained(best) => old[2] <= best[h][2]]_vars

\* two retained candidates tie at the maximum and a better one arrives: the
\* earlier of the two is gone
C22_Witness ==
    /\ pc = "scoring" /\ cfg.topk = 2 /\ Len(arrived) = 3
    /\ arrived[1].E = 1 /\ arrived[2].E = 1 /\ arrived[3].E = 0
    /\ {best[h][2] : h \in 1..Len(best)} = {2, 3}

\* the keys of the first n enumerated vectors
KeysOfFirst(configs, n, P) == {CanonicalKey(configs[i], P) : i \in 1..n}
Transitive(P, n) ==
    \A i \in 1..n : \A j \in 1..n : \E p \in 1..Len(P) : P[p][i] = j
DedupState == pc \in {"enumerate", "unique_error"} \/ (pc = "scoring" /\ done = 0)

\* C23: the deduplicator retains, in order of first occurrence, the first
\* enumerated vector of every canonical key, so every enumerated vector has
\* exactly one retained vector with its key; one dopant on one site under a
\* transitive group leaves one unique vector.
C23_OnePerSymmetryClass ==
    /\ [](DedupState =>
            LET configs == EnumerateLabelConfigs(N, dopant_label_counts)
                ukeys == {CanonicalKey(unique_labels[u], perms) :
                              u \in 1..Len(unique_labels)}
            IN  /\ KeysOfFirst(configs, checked_raw, perms) = ukeys
                /\ Cardinality(ukeys) = Len(unique_labels)
                /\ pc = "scoring" =>
                      /\ checked_raw = Len(configs)
                      /\ jobs = unique_labels
                      /\ (/\ Len(dopant_label_counts) = 1
                          /\ dopant_label_counts[1][2] = 1
                          /\ Transitive(perms, N)) => Len(unique_labels) = 1)
    /\ [][checked_raw' = checked_raw + 1 =>
            LET configs == EnumerateLabelConfigs(N, dopant_label_counts)
                L == configs[checked_raw']
            IN  IF CanonicalKey(L, perms) \in KeysOfFirst(configs, checked_raw, perms)
                THEN unique_labels' = unique_labels
                ELSE unique_labels' = Append(unique_labels, L)]_vars

\* four sites, one dopant, the eight permutations of the ring: one job
C23_Witness ==
    /\ pc = "scoring" /\ done = 0 /\ N = 4 /\ Len(perms) = 8
    /\ Len(dopant_label_counts) = 1 /\ dopant_label_counts[1][2] = 1
    /\ checked_raw = 4 /\ Len(jobs) = 1

\* the vectors of length n over labels 0..k in which label items[i][1]
\* occurs exactly items[i][2] times and every other position is 0
CountOf(L, lab) == Cardinality({i \in 1..Len(L) : L[i] = lab})
Admissible(n, items) ==
    {L \in [1..n -> 0..Len(items)] :
        \A i \in 1..Len(items) : CountOf(L, items[i][1]) = items[i][2]}

\* C24: for at most three dopant labels the enumerator yields a finite
\* sequence holding exactly the vectors with the required count of every
\* label and 0 elsewhere, each of them once.
C24_EnumeratesExactlyOnce ==
    (pc = "enumerate" /\ Len(dopant_label_counts) <= 3) =>
        LET configs == EnumerateLabelConfigs(N, dopant_label_counts)
        IN  /\ ~EnumeratorRaises(dopant_label_counts)
            /\ Range(configs) = Admissible(N, dopant_label_counts)
            /\ \A i \in 1..Len(configs) : \A j \in 1..Len(configs) :
                  i # j => configs[i] # configs[j]

\* three labels on five sites, the generator about to yield its last vector
C24_Witness ==
    /\ pc = "enumerate" /\ N = 5 /\ Len(dopant_label_counts) = 3
    /\ checked_raw = 59
    /\ Len(EnumerateLabelConfigs(N, dopant_label_counts)) = 60

\* C25: the raw count estimated before enumeration, a product of binomial
\* coefficients over the dopant counts in their inferred order, is the
\* number of vectors the enumerator yields when run to completion, although
\* the enumerator places the species in sorted-name order.
C25_EstimateIsExact ==
    /\ (pc = "enumerate" /\ ~EnumeratorRaises(dopant_label_counts)) =>
          Len(EnumerateLabelConfigs(N, dopant_label_counts)) = raw_ncfg
    /\ pc \in {"scoring", "done", "score_error"} => checked_raw = raw_ncfg

\* inferred order Zr (1 site), Nb (2 sites); placed in the order Nb, Zr
C25_Witness ==
    /\ pc = "scoring" /\ done = 0
    /\ dopant_counts = << <<"Zr", 1>>, <<"Nb", 2>> >>
    /\ dopant_label_counts = << <<1, 2>>, <<2, 1>> >>
    /\ raw_ncfg = 30 /\ checked_raw = 30

\* C26: every unique vector is one job, every job's result is consumed at
\* most once while the pool runs, and in a completed scan each has been
\* consumed exactly once: the number of results consumed is the number of
\* unique candidates.
ConsumedJobs == {arrived[i].job : i \in 1..Len(arrived)}
C26_EachJobOnce ==
    pc \in {"scoring", "done", "score_error"} =>
        /\ jobs = unique_labels
        /\ done = Len(arrived)
        /\ Cardinality(ConsumedJobs) = Len(arrived)
        /\ ConsumedJobs \cap pending = {}
        /\ ConsumedJobs \cup pending = 1..Len(jobs)
        /\ \A i \in 1..Len(arrived) : arrived[i].labels = jobs[arrived[i].job]
        /\ pc = "done" => (pending = {} /\ done = Len(unique_labels))

\* four jobs on two workers, consumed out of list order
C26_Witness ==
    /\ pc = "done" /\ cfg.nproc = 2 /\ done = 4
    /\ arrived[1].job = 2 /\ arrived[2].job = 1 /\ arrived[3].job = 4

\* the sublattice coordinates, the analyzer's operations, and the periodic
\* distance in lattice steps
SubFrac == [k \in 1..Len(sub_idx) |-> base.sites[sub_idx[k]].x]
ParentOps ==
    SymmetryOperations(MakeParentStructure(base, sub_idx, cfg.host_species),
                       cfg.symprec)
RingDist(a, b, G) ==
    LET d == (a - b) % G IN IF d <= G - d THEN d ELSE G - d
NearestDist(c, G) ==
    CHOOSE d \in 0..G :
        /\ \E k \in 1..Len(SubFrac) : RingDist(SubFrac[k], c, G) = d
        /\ \A k \in 1..Len(SubFrac) : RingDist(SubFrac[k], c, G) >= d
ImageOf(op, i) == op.R * SubFrac[i] + op.t
SymmetryDone == PermsBuilt \/ pc = "match_error"

C28_MatchTolerance ==
    SymmetryDone =>
        LET tooFar == \E o \in 1..Len(ParentOps) : \E i \in 1..N :
                          NearestDist(ImageOf(ParentOps[o], i), base.G) > cfg.symprec
        IN  /\ (pc = "match_error") <=> tooFar
            /\ pc = "match_error" => perms = << >>
            /\ ~tooFar =>
                  \A o \in 1..Len(ParentOps) : \E p \in 1..Len(perms) :
                      \A i \in 1..N :
                          RingDist(SubFrac[perms[p][i]], ImageOf(ParentOps[o], i), base.G)
                              = NearestDist(ImageOf(ParentOps[o], i), base.G)

\* an operation two steps off on a cell where the tolerance is one step
C28_Witness ==
    /\ pc = "match_error" /\ base.loose = 2 /\ cfg.symprec = 1
    /\ \E o \in 1..Len(ParentOps) : \E i \in 1..N :
          NearestDist(ImageOf(ParentOps[o], i), base.G) = 2

\* the species found at every position of a structure
SpeciesAt(struct) ==
    {<<struct.sites[i].x, struct.sites[i].el>> : i \in 1..Len(struct.sites)}

\* C29: whatever the completion order, a retained candidate holds the score
\* and the label vector one worker returned together for one job, and the
\* structure written for a ranked candidate has on every site the species
\* of the structure that worker scored.
C29_ScoresStayPaired ==
    /\ \A h \in 1..Len(best) :
          LET a == arrived[best[h][2]]
          IN  /\ -best[h][1] = a.E
              /\ best[h][3] = a.labels
              /\ a.labels = jobs[a.job]
    /\ pc = "done" =>
          \A r \in 1..Len(ranking) :
              LET a == arrived[ranking[r].eval_order_index]
              IN  /\ ranking[r].E = a.E
                  /\ ranking[r].labels = jobs[a.job]
                  /\ SpeciesAt(ranking[r].poscar) = SpeciesAt(WorkerStructure(a.job))

\* two workers, the second job finishes first and is ranked first
C29_Witness ==
    /\ pc = "done" /\ cfg.nproc = 2 /\ Len(jobs) >= 2
    /\ arrived[1].job = 2 /\ arrived[2].job = 1
    /\ Len(ranking) >= 1 /\ ranking[1].eval_order_index = 1
    /\ jobs[1] # jobs[2]

\* the run before this one, the name of the folder cur points at, and the
\* files a step adds to folder k
LastRun == runs[Len(runs)]
AbortedRun == runs # << >> /\ LastRun.outcome \notin {"finished", "parse_error"}
NameAt(c) == IF c \in 1..Len(folders) THEN folders[c].name ELSE 0
Added(k) ==
    SubSeq(folders'[k].written, Len(folders[k].written) + 1, Len(folders'[k].written))
IsCandidateFile(w) == w[2] >= 1

\* C30: run_scan goes through the folders in the sorted order of their
\* names; with skip_if_done a folder holding ranking_scan.csv is neither
\* scanned nor modified; ranking_scan.csv is written after the files of every
\* candidate directory of its folder; a run after a completed run scores
\* nothing; and a folder whose scan aborted before ranking_scan.csv was
\* written is scanned when the next run reaches it, which with skip_if_done
\* it does without scanning any folder before it.
C30_SkipDoneAndResume ==
    /\ [](/\ \A i \in 1..Len(folders) : \A j \in 1..Len(folders) :
                i < j => folders[i].name < folders[j].name
          /\ (runs # << >> /\ LastRun.outcome = "finished" /\ cfg.skip_if_done) =>
                pc \in {"parse", "next", "finished"} /\ jobs = << >> /\ done = 0
          /\ (AbortedRun /\ cfg.skip_if_done /\ cur < LastRun.at) =>
                pc \in {"parse", "next"})
    /\ [][/\ (cur' # cur /\ cur' \in 1..Len(folders)) =>
                /\ NameAt(cur) < NameAt(cur')
                /\ \A k \in 1..Len(folders) :
                      ~(NameAt(cur) < NameAt(k) /\ NameAt(k) < NameAt(cur'))
          /\ (pc = "next" /\ pc' = "start") =>
                cur' = cur /\ folders[cur].exists /\ base' = folders[cur].poscar
          /\ \A k \in 1..Len(folders) :
                /\ (cfg.skip_if_done /\ folders[k].csv) =>
                      /\ folders'[k] = folders[k]
                      /\ ~(pc = "next" /\ cur = k /\ pc' = "start")
                /\ folders'[k].csv # folders[k].csv =>
                      <<"ranking_scan.csv", 0>> \in Range(Added(k))
                /\ \A i \in 1..Len(Added(k)) :
                      Added(k)[i] = <<"ranking_scan.csv", 0>> =>
                          /\ \A j \in 1..Len(Added(k)) :
                                IsCandidateFile(Added(k)[j]) => j < i
                          /\ \A r \in 1..Len(best) :
                                /\ <<"candidate/01_scan/POSCAR", r>> \in Range(Added(k))
                                /\ <<"candidate/01_scan/meta.json", r>> \in Range(Added(k))
                /\ (AbortedRun /\ pc = "next" /\ cur = k /\ k = LastRun.at
                        /\ ~folders[k].csv) =>
                      pc' = "start" /\ base' = folders[k].poscar
         ]_vars

\* the second folder's scan failed in the first run; the second run skipped
\* the first folder and has scanned the second one again
C30_Witness ==
    /\ Len(runs) = 1 /\ runs[1].outcome = "score_error" /\ runs[1].at = 2
    /\ cfg.skip_if_done
    /\ folders[1].exists /\ folders[1].csv /\ folders[1].written # << >>
    /\ pc = "done" /\ cur = 2 /\ folders[2].csv
    /\ Len(folders[2].written) = 4

====
